---- MODULE Spec2Model ----
(***************************************************************************)
(* Sync / reconciliation layer of central-da-performance (Vetor Core).     *)
(*                                                                         *)
(* The relational store is four tables (brokers, deals, activity_logs,     *)
(* sync_logs) kept as sequences: the id of a row is its index, rows are    *)
(* never deleted by sync.  Three kinds of caller touch them: the scheduled *)
(* Vetor job and the scheduled Mada job of services/cron-jobs.ts, and the  *)
(* manual trigger POST /api/sync of routes/sync.ts.  Each runs as a        *)
(* process whose program counter stops at the awaits of the source.        *)
(*                                                                         *)
(* External records are drawn one at a time when the loop reaches them     *)
(* (the loops never look ahead), unless the external dataset of the        *)
(* organization is frozen in ext, in which case every fetch returns it.    *)
(***************************************************************************)
EXTENDS Integers, Sequences, FiniteSets, TLC

\* ---------------------------------------------------------------- bounds
MaxTicks == 2      \* timer ticks and manual requests started in one behaviour
MaxUsers == 1      \* users returned by one fetch
MaxDeals == 2      \* deals returned by one fetch
MaxNotes == 1      \* notes returned by one fetch
MaxConvs == 2      \* conversations returned by one fetch
MaxActive == 1     \* ticks and requests in flight at the same time

\* ------------------------------------------------------------- vocabulary
Orgs == {"A", "B"}
Null == "null"                      \* null / undefined / absent
Procs == {"vetorTick", "madaTick", "manual"}


VARIABLES
  orgs,          \* organizations: crm_type and the keys present in crm_config
  brokers,       \* brokers table
  deals,         \* deals table
  activityLogs,  \* activity_logs table
  syncLogs,      \* sync_logs table
  proc,          \* the callers: program counter and locals of each
  ext,           \* the external dataset of each organization, when frozen
  adapterHasUsers, \* does fetchRecentlyModified return a users list
  ticks,         \* ticks and requests started so far
  opened,        \* passes that inserted their sync_logs row
  returned,      \* passes that returned to their caller
  cron,          \* MADA_SYNC_CRON and VETOR_SYNC_CRON as the jobs were started
  retry,         \* the withRetry call in flight: its arguments and locals
  listing,       \* the pages GET /api/deals has answered to one client
  now            \* the clock new Date() reads

vars == <<orgs, brokers, deals, activityLogs, syncLogs, proc, ext,
          adapterHasUsers, ticks, opened, returned, cron, retry, listing,
          now>>

\* ------------------------------------------------------- external records
NoUser == [id |-> Null, email |-> Null, disabled |-> FALSE, status |-> Null]
NoDeal == [id |-> Null, title |-> Null, agent_email |-> Null, stage |-> <<>>,
           last_activity_at |-> Null, notes |-> Null, created_date |-> Null]
NoConv == [id |-> Null, deal_id |-> 0, summary |-> Null, updated_at |-> Null]

User(id, email, disabled, status) ==
  [id |-> id, email |-> email, disabled |-> disabled, status |-> status]

\* A stage is free text; it is kept as the sequence of the words in it.
Deal(id, title, agent, stage, activity, notes, created) ==
  [id |-> id, title |-> title, agent_email |-> agent, stage |-> stage,
   last_activity_at |-> activity, notes |-> notes, created_date |-> created]

Note(id, dealId, archived) ==
  [id |-> id, deal_id |-> dealId, is_archived |-> archived]

Conv(id, dealId, summary, updated) ==
  [id |-> id, deal_id |-> dealId, summary |-> summary, updated_at |-> updated]

\* the records the external systems may return in the main specification
MainUsers == {User("u1", "e1", FALSE, "active")}

MainDeals ==
  {Deal("d1", "t1", "e1", <<"perdido">>, "ts", Null, Null),
   Deal("d1", "t1", "e1", <<"perdido">>, "bad", Null, Null),
   Deal("d1", "t1", "e1", <<"perdido">>, "ts", "txt", Null),
   Deal("d1", "t1", "e1", <<"perdido">>, "ts", "txt", "ts")}

MainNotes == {Note("n1", "d1", FALSE), Note("n2", Null, FALSE)}

MainConvs ==
  {Conv("c1", 1, "s1", "ts"), Conv("c2", 0, "s1", "ts"),
   Conv("c3", 1, "s1", "bad")}

\* -------------------------------------------------------------- functions
\* String.prototype.includes on a stage, word by word.
Includes(stage, term) == \E i \in 1..Len(stage) : stage[i] = term

\* the mapping without its last line: an unknown stage falls off the end
mapVetorStageNoDefault(stage) ==
  IF stage = <<>> THEN "New"
  ELSE IF Includes(stage, "perdido") THEN "Lost"
  ELSE IF Includes(stage, "fechado") THEN "Closed"
  ELSE IF Includes(stage, "proposta") \/ Includes(stage, "negociacao")
       THEN "Proposal"
  ELSE IF Includes(stage, "visita") THEN "Negotiation"
  ELSE IF Includes(stage, "qualificacao") THEN "Qualified"
  ELSE Null

mapVetorStage(stage) ==
  IF stage = <<>> THEN "New"
  ELSE IF Includes(stage, "perdido") THEN "Lost"
  ELSE IF Includes(stage, "fechado") THEN "Closed"
  ELSE IF Includes(stage, "proposta") \/ Includes(stage, "negociacao")
       THEN "Proposal"
  ELSE IF Includes(stage, "visita") THEN "Negotiation"
  ELSE IF Includes(stage, "qualificacao") THEN "Qualified"
  ELSE "New"

\* the flag taken from disabled alone
IsActiveIgnoresStatus(user) == ~user.disabled

\* !user.disabled && user.status === 'active'
IsActive(user) == ~user.disabled /\ user.status = "active"

\* a value the set() of an update leaves out when it is undefined
Merge(new, old) == IF new = Null THEN old ELSE new

\* the orders in which a select without ORDER BY may return a set of rows
Orderings(S) ==
  {q \in UNION {[1..n -> S] : n \in {Cardinality(S)}} :
     \A i, j \in 1..Len(q) : i # j => q[i] # q[j]}

\* the rows a select returns; [first] = ... takes any one of them, 0 if none
FirstOf(S) == IF S = {} THEN {0} ELSE S

\* ------------------------------------------------------------- sync_logs
NewLog(org, source) ==
  [organization_id |-> org, source |-> source, status |-> "running",
   records_processed |-> 0, error_message |-> Null]

\* an update that selects the rows by organization and not by id
CloseLogByOrganization(logs, id, status, processed, message) ==
  [i \in DOMAIN logs |->
     IF logs[i].organization_id = logs[id].organization_id
     THEN [logs[i] EXCEPT !.status = status,
                          !.records_processed = processed,
                          !.error_message = message]
     ELSE logs[i]]

\* update(syncLogs).set(...).where(eq(syncLogs.id, syncLogId))
CloseLog(logs, id, status, processed, message) ==
  [logs EXCEPT ![id] = [@ EXCEPT !.status = status,
                                 !.records_processed = processed,
                                 !.error_message = message]]

\* a catch block that records the message and leaves the status as it was
FailLogKeepsRunning(logs, id, message) ==
  [logs EXCEPT ![id].error_message = message]

\* the catch block of a pass: status and message only
FailLog(logs, id, message) ==
  [logs EXCEPT ![id] = [@ EXCEPT !.status = "error",
                                 !.error_message = message]]

\* ----------------------------------------------------------------- state
IdleProc ==
  [pc |-> "idle", queue |-> <<>>, org |-> Null, source |-> Null,
   logId |-> 0, processed |-> 0, errors |-> 0,
   caught |-> 0, fetchedUsers |-> 0, fetchedDeals |-> 0, fetchedConvs |-> 0,
   fetchFailed |-> FALSE,
   users |-> 0, deals |-> 0, notes |-> 0, convs |-> 0,
   user |-> NoUser, deal |-> NoDeal, conv |-> NoConv,
   existing |-> 0, broker |-> 0,
   minutes |-> 0, lookback |-> <<>>, hung |-> FALSE,
   resp |-> [code |-> 0, recordsProcessed |-> 0, logIds |-> <<>>]]

\* an external system that may answer any records of the given sets
FreeExt(users, dealRecs, notes, convs) ==
  [frozen |-> FALSE, users |-> <<>>, deals |-> <<>>, notes |-> <<>>,
   convs |-> <<>>, userSet |-> users, dealSet |-> dealRecs,
   noteSet |-> notes, convSet |-> convs]

\* the configurations PUT /organizations/:id/crm-config can leave behind
OrgConfigs ==
  {[crm_type |-> "none", crm_config |-> {}],
   [crm_type |-> "vetor", crm_config |-> {}],
   [crm_type |-> "vetor", crm_config |-> {"vetor_api_key"}],
   [crm_type |-> "mada", crm_config |-> {}],
   [crm_type |-> "mada",
    crm_config |-> {"mada_supabase_url", "mada_supabase_key"}]}

\* a cron expression: '*/N * * * *' as its N, any other text as "other"
Every(n) == [form |-> "everyN", n |-> n]
OtherCron == [form |-> "other", n |-> 0]

\* process.env.MADA_SYNC_CRON || '*/5 * * * *' and
\* process.env.VETOR_SYNC_CRON || '*/30 * * * *', with neither variable set
DefaultCron == [mada |-> Every(5), vetor |-> Every(30)]

\* no withRetry call and no listing in flight
NoRetry == [pc |-> "none"]
NoListing == [organization_id |-> Null, limit |-> 0, pages |-> <<>>,
              totals |-> <<>>]

\* empty tables and no caller in flight
InitTables ==
  /\ brokers = <<>>
  /\ deals = <<>>
  /\ activityLogs = <<>>
  /\ syncLogs = <<>>
  /\ proc = [p \in Procs |-> IdleProc]
  /\ ticks = 0
  /\ opened = 0
  /\ returned = 0

InitDb ==
  /\ InitTables
  /\ retry = NoRetry
  /\ listing = NoListing
  /\ now = 0

Init ==
  /\ InitDb
  /\ cron = DefaultCron
  /\ orgs \in [Orgs -> OrgConfigs]
  /\ ext = [o \in Orgs |->
              FreeExt(MainUsers, MainDeals, MainNotes, MainConvs)]
  /\ adapterHasUsers \in BOOLEAN

\* the number of records a fetch returns, and the record the loop is at
FetchLen(o, field, max, n) ==
  IF ext[o].frozen THEN n = Len(ext[o][field]) ELSE n \in 0..max

RecordAt(o, field, left, r) ==
  IF ext[o].frozen
  THEN r = ext[o][field][Len(ext[o][field]) - left + 1]
  ELSE TRUE

\* a timer may fire, or a request arrive, while others are in flight
MayStart ==
  /\ ticks < MaxTicks
  /\ Cardinality({q \in Procs : proc[q].pc \notin {"idle", "vetorHung"}})
       < MaxActive

HasKey(o, k) == k \in orgs[o].crm_config

\* --------------------------------------- scheduled Vetor job (cron-jobs.ts)
\* the timer fires: select the organizations whose crm_type is 'vetor'
VetorTickFires(p) ==
  /\ p = "vetorTick"
  /\ proc[p].pc = "idle"
  /\ \E q \in Orderings({o \in Orgs : orgs[o].crm_type = "vetor"}) :
       proc' = [proc EXCEPT ![p] = [IdleProc EXCEPT !.pc = "vetorLoop",
                                                    !.queue = q]]
  /\ ticks' = ticks + 1
  /\ UNCHANGED <<cron, retry, listing, now,
                 orgs, brokers, deals, activityLogs, syncLogs, ext,
                 adapterHasUsers, opened, returned>>

\* the timer fires while no other caller is in flight
VetorTickStart(p) == MayStart /\ VetorTickFires(p)

\* no API key, and the loop is left with break where the code has continue
VetorSkipOrgBreaks(p) ==
  /\ proc[p].pc = "vetorLoop"
  /\ proc[p].queue # <<>>
  /\ ~HasKey(Head(proc[p].queue), "vetor_api_key")
  /\ proc' = [proc EXCEPT ![p].queue = <<>>]
  /\ UNCHANGED <<cron, retry, listing, now,
                 orgs, brokers, deals, activityLogs, syncLogs, ext,
                 adapterHasUsers, ticks, opened, returned>>

\* for (const org of vetorOrgs): no API key, continue
VetorSkipOrg(p) ==
  /\ proc[p].pc = "vetorLoop"
  /\ proc[p].queue # <<>>
  /\ ~HasKey(Head(proc[p].queue), "vetor_api_key")
  /\ proc' = [proc EXCEPT ![p].queue = Tail(@)]
  /\ UNCHANGED <<cron, retry, listing, now,
                 orgs, brokers, deals, activityLogs, syncLogs, ext,
                 adapterHasUsers, ticks, opened, returned>>

\* insert the sync_logs row of the pass
VetorOpenLog(p) ==
  /\ proc[p].pc = "vetorLoop"
  /\ proc[p].queue # <<>>
  /\ HasKey(Head(proc[p].queue), "vetor_api_key")
  /\ syncLogs' = Append(syncLogs, NewLog(Head(proc[p].queue), "vetor_imobi"))
  /\ proc' = [proc EXCEPT ![p].pc = "vetorFetch",
                          ![p].lookback = <<30>>,
                          ![p].org = Head(proc[p].queue),
                          ![p].queue = Tail(@),
                          ![p].logId = Len(syncLogs) + 1,
                          ![p].processed = 0,
                          ![p].caught = 0,
                          ![p].fetchedUsers = 0,
                          ![p].fetchedDeals = 0,
                          ![p].fetchFailed = FALSE]
  /\ opened' = opened + 1
  /\ UNCHANGED <<cron, retry, listing, now,
                 orgs, brokers, deals, activityLogs, ext, adapterHasUsers,
                 ticks, returned>>

\* the loop over the organizations is over
VetorTickEnd(p) ==
  /\ proc[p].pc = "vetorLoop"
  /\ proc[p].queue = <<>>
  /\ proc' = [proc EXCEPT ![p] = IdleProc]
  /\ UNCHANGED <<cron, retry, listing, now,
                 orgs, brokers, deals, activityLogs, syncLogs, ext,
                 adapterHasUsers, ticks, opened, returned>>

\* where the pass goes once a loop has nothing left
VetorPc(users, dealsLeft) ==
  IF users > 0 THEN "vetorUsers"
  ELSE IF dealsLeft > 0 THEN "vetorDeals"
  ELSE "vetorNotesFetch"

\* the body of the pass is started without await: the loop goes on to
\* the next organization while the row is still 'running'
VetorFetchDetached(p) ==
  /\ proc[p].pc = "vetorFetch"
  /\ adapterHasUsers
  /\ proc' = [proc EXCEPT ![p].pc = "vetorLoop"]
  /\ UNCHANGED <<cron, retry, listing, now,
                 orgs, brokers, deals, activityLogs, syncLogs, ext,
                 adapterHasUsers, ticks, opened, returned>>

\* fetchRecentlyModified(30) answers
VetorFetchOk(p) ==
  /\ proc[p].pc = "vetorFetch"
  /\ adapterHasUsers
  /\ \E nu \in 0..MaxUsers, nd \in 0..MaxDeals :
       /\ FetchLen(proc[p].org, "users", MaxUsers, nu)
       /\ FetchLen(proc[p].org, "deals", MaxDeals, nd)
       /\ proc' = [proc EXCEPT ![p].pc = VetorPc(nu, nd),
                               ![p].users = nu,
                               ![p].deals = nd,
                               ![p].fetchedUsers = nu,
                               ![p].fetchedDeals = nd]
  /\ UNCHANGED <<cron, retry, listing, now,
                 orgs, brokers, deals, activityLogs, syncLogs, ext,
                 adapterHasUsers, ticks, opened, returned>>

\* the catch block of the pass: the row is closed with status 'error'
VetorCatch(p, fetchThrew) ==
  /\ syncLogs' = FailLog(syncLogs, proc[p].logId, "exception")
  /\ proc' = [proc EXCEPT ![p].pc = "vetorLoop",
                          ![p].fetchFailed = fetchThrew]
  /\ returned' = returned + 1
  /\ UNCHANGED <<cron, retry, listing, now,
                 orgs, brokers, deals, activityLogs, ext, adapterHasUsers,
                 ticks, opened>>

\* a request that is given up after a while: the abandoned call throws and
\* the catch block of the pass closes the row
VetorFetchTimesOut(p) ==
  /\ proc[p].pc = "vetorFetch"
  /\ syncLogs' = FailLog(syncLogs, proc[p].logId, "timeout")
  /\ proc' = [proc EXCEPT ![p].pc = "vetorLoop",
                          ![p].hung = TRUE,
                          ![p].fetchFailed = TRUE]
  /\ returned' = returned + 1
  /\ UNCHANGED <<cron, retry, listing, now,
                 orgs, brokers, deals, activityLogs, ext, adapterHasUsers,
                 ticks, opened>>

\* the API never answers: request() awaits fetch(url, ...) with no signal
\* and no timer, and nothing else resumes the callback
VetorFetchHangs(p) ==
  /\ proc[p].pc = "vetorFetch"
  /\ proc' = [proc EXCEPT ![p].pc = "vetorHung", ![p].hung = TRUE]
  /\ UNCHANGED <<cron, retry, listing, now,
                 orgs, brokers, deals, activityLogs, syncLogs, ext,
                 adapterHasUsers, ticks, opened, returned>>

\* request() throws: API unreachable or response not ok
VetorFetchThrows(p) ==
  /\ proc[p].pc = "vetorFetch"
  /\ VetorCatch(p, TRUE)

\* the adapter returns { clients, deals, properties }: users is undefined
\* and users.length throws
VetorFetchNoUsers(p) ==
  /\ proc[p].pc = "vetorFetch"
  /\ ~adapterHasUsers
  /\ VetorCatch(p, FALSE)

\* ------------------------------------------------------------ table rows
BrokerRow(org, user) ==
  [organization_id |-> org, crm_external_id |-> user.id,
   email |-> user.email, is_active |-> IsActive(user)]

\* brokers whose crm_external_id equals user.id || '' (in any organization)
BrokersByExternalId(id) ==
  {i \in DOMAIN brokers : id # Null /\ brokers[i].crm_external_id = id}

\* brokers whose email equals vetorDeal.agent_email || '' (any organization)
BrokersByEmail(email) ==
  {i \in DOMAIN brokers : email # Null /\ brokers[i].email = email}

\* deals whose property_title equals vetorDeal.title || '' (any organization)
DealsByTitle(title) ==
  {i \in DOMAIN deals : title # Null /\ deals[i].property_title = title}

\* deals whose external_id equals note.deal_id (any organization)
DealsByExternalId(id) ==
  {i \in DOMAIN deals : id # Null /\ deals[i].external_id = id}

\* new Date(x) of an unparsable x is an Invalid Date; the driver mapping of a
\* timestamp column calls toISOString() on it, which throws
InvalidDate(x) == x = "bad"

\* dealData of the scheduled job, as the row it inserts
CronDealRow(org, broker, d) ==
  [organization_id |-> org, broker_id |-> broker, external_id |-> d.id,
   property_title |-> d.title, status |-> mapVetorStage(d.stage),
   last_activity |-> d.last_activity_at, smart_summary |-> Null]

\* an update whose set() carries the status but not the activity date
CronDealUpdateKeepsActivity(old, org, broker, d) ==
  [old EXCEPT !.organization_id = org,
              !.broker_id = IF broker = 0 THEN @ ELSE broker,
              !.external_id = Merge(d.id, @),
              !.property_title = Merge(d.title, @),
              !.status = mapVetorStage(d.stage)]

\* update(deals).set(dealData): undefined members are left out of the set
CronDealUpdate(old, org, broker, d) ==
  [old EXCEPT !.organization_id = org,
              !.broker_id = IF broker = 0 THEN @ ELSE broker,
              !.external_id = Merge(d.id, @),
              !.property_title = Merge(d.title, @),
              !.status = mapVetorStage(d.stage),
              !.last_activity = Merge(d.last_activity_at, @)]

NoteRow(dealId, noteId) ==
  [deal_id |-> dealId, type |-> "note", crm_note_id |-> noteId]

\* for (const user of users): select the broker with this external id
VetorUserFind(p) ==
  /\ proc[p].pc = "vetorUsers"
  /\ \E u \in ext[proc[p].org].userSet :
       /\ RecordAt(proc[p].org, "users", proc[p].users, u)
       /\ \E e \in FirstOf(BrokersByExternalId(u.id)) :
            proc' = [proc EXCEPT ![p].pc = "vetorUserWrite",
                                 ![p].user = u,
                                 ![p].existing = e]
  /\ UNCHANGED <<cron, retry, listing, now,
                 orgs, brokers, deals, activityLogs, syncLogs, ext,
                 adapterHasUsers, ticks, opened, returned>>

\* update the broker found, or insert one for this organization
VetorUserWrite(p) ==
  /\ proc[p].pc = "vetorUserWrite"
  /\ LET u == proc[p].user
         e == proc[p].existing
     IN brokers' =
          IF e # 0
          THEN [brokers EXCEPT ![e].email = Merge(u.email, @),
                               ![e].is_active = IsActive(u)]
          ELSE Append(brokers, BrokerRow(proc[p].org, u))
  /\ proc' = [proc EXCEPT ![p].pc = VetorPc(proc[p].users - 1, proc[p].deals),
                          ![p].users = @ - 1,
                          ![p].processed = @ + 1,
                          ![p].user = NoUser,
                          ![p].existing = 0]
  /\ UNCHANGED <<cron, retry, listing, now,
                 orgs, deals, activityLogs, syncLogs, ext, adapterHasUsers,
                 ticks, opened, returned>>

\* for (const vetorDeal of vetorDeals): select the broker by e-mail and the
\* deal by title
VetorDealFind(p) ==
  /\ proc[p].pc = "vetorDeals"
  /\ \E d \in ext[proc[p].org].dealSet :
       /\ RecordAt(proc[p].org, "deals", proc[p].deals, d)
       /\ \E b \in FirstOf(BrokersByEmail(d.agent_email)),
             e \in FirstOf(DealsByTitle(d.title)) :
            proc' = [proc EXCEPT ![p].pc = "vetorDealWrite",
                                 ![p].deal = d,
                                 ![p].broker = b,
                                 ![p].existing = e]
  /\ UNCHANGED <<cron, retry, listing, now,
                 orgs, brokers, deals, activityLogs, syncLogs, ext,
                 adapterHasUsers, ticks, opened, returned>>

\* update the deal found, or insert one; a throw is caught per record
VetorDealWrite(p) ==
  /\ proc[p].pc = "vetorDealWrite"
  /\ LET d == proc[p].deal
         e == proc[p].existing
         b == proc[p].broker
     IN IF InvalidDate(d.last_activity_at)
        THEN /\ deals' = deals
             /\ proc' = [proc EXCEPT
                  ![p].pc = VetorPc(0, proc[p].deals - 1),
                  ![p].deals = @ - 1,
                  ![p].caught = @ + 1,
                  ![p].deal = NoDeal, ![p].broker = 0, ![p].existing = 0]
        ELSE /\ deals' =
                  IF e # 0
                  THEN [deals EXCEPT
                          ![e] = CronDealUpdate(@, proc[p].org, b, d)]
                  ELSE Append(deals, CronDealRow(proc[p].org, b, d))
             /\ proc' = [proc EXCEPT
                  ![p].pc = VetorPc(0, proc[p].deals - 1),
                  ![p].deals = @ - 1,
                  ![p].processed = @ + 1,
                  ![p].deal = NoDeal, ![p].broker = 0, ![p].existing = 0]
  /\ UNCHANGED <<cron, retry, listing, now,
                 orgs, brokers, activityLogs, syncLogs, ext, adapterHasUsers,
                 ticks, opened, returned>>

\* syncVetorNotes: adapter.fetchNotes() answers
VetorNotesFetchOk(p) ==
  /\ proc[p].pc = "vetorNotesFetch"
  /\ \E n \in 0..MaxNotes :
       /\ FetchLen(proc[p].org, "notes", MaxNotes, n)
       /\ proc' = [proc EXCEPT
            ![p].pc = IF n > 0 THEN "vetorNotes" ELSE "vetorClose",
            ![p].notes = n]
  /\ UNCHANGED <<cron, retry, listing, now,
                 orgs, brokers, deals, activityLogs, syncLogs, ext,
                 adapterHasUsers, ticks, opened, returned>>

\* syncVetorNotes: the fetch throws; the outer catch of syncVetorNotes logs it
VetorNotesFetchThrows(p) ==
  /\ proc[p].pc = "vetorNotesFetch"
  /\ proc' = [proc EXCEPT ![p].pc = "vetorClose",
                          ![p].fetchFailed = TRUE]
  /\ UNCHANGED <<cron, retry, listing, now,
                 orgs, brokers, deals, activityLogs, syncLogs, ext,
                 adapterHasUsers, ticks, opened, returned>>

\* for (const note of notes): skip an archived note; find the deal by its
\* external id; insert the activity log (a deal_id that is no deal violates
\* the foreign key: the insert throws and the throw is caught per note)
VetorNoteStep(p) ==
  /\ proc[p].pc = "vetorNotes"
  /\ \E n \in ext[proc[p].org].noteSet :
       /\ RecordAt(proc[p].org, "notes", proc[p].notes, n)
       /\ \E dl \in FirstOf(DealsByExternalId(n.deal_id)) :
            activityLogs' =
              IF n.is_archived \/ dl = 0
              THEN activityLogs
              ELSE Append(activityLogs, NoteRow(dl, n.id))
  /\ proc' = [proc EXCEPT
       ![p].pc = IF proc[p].notes > 1 THEN "vetorNotes" ELSE "vetorClose",
       ![p].notes = @ - 1]
  /\ UNCHANGED <<cron, retry, listing, now,
                 orgs, brokers, deals, syncLogs, ext, adapterHasUsers,
                 ticks, opened, returned>>

\* the pass ran to its end: close the row with status 'success'
VetorCloseSuccess(p) ==
  /\ proc[p].pc = "vetorClose"
  /\ syncLogs' = CloseLog(syncLogs, proc[p].logId, "success",
                          proc[p].processed,
                          syncLogs[proc[p].logId].error_message)
  /\ proc' = [proc EXCEPT ![p].pc = "vetorLoop"]
  /\ returned' = returned + 1
  /\ UNCHANGED <<cron, retry, listing, now,
                 orgs, brokers, deals, activityLogs, ext, adapterHasUsers,
                 ticks, opened>>

\* --------------------------------------- scheduled Mada job (cron-jobs.ts)
\* the timer fires: select the organizations whose crm_type is 'mada'
MadaTickStart(p) ==
  /\ p = "madaTick"
  /\ proc[p].pc = "idle"
  /\ MayStart
  /\ \E q \in Orderings({o \in Orgs : orgs[o].crm_type = "mada"}) :
       proc' = [proc EXCEPT ![p] = [IdleProc EXCEPT !.pc = "madaLoop",
                                                    !.queue = q]]
  /\ ticks' = ticks + 1
  /\ UNCHANGED <<cron, retry, listing, now,
                 orgs, brokers, deals, activityLogs, syncLogs, ext,
                 adapterHasUsers, opened, returned>>

MadaCredentials(o) ==
  HasKey(o, "mada_supabase_url") /\ HasKey(o, "mada_supabase_key")

\* for (const org of madaOrgs): missing credentials, continue
MadaSkipOrg(p) ==
  /\ proc[p].pc = "madaLoop"
  /\ proc[p].queue # <<>>
  /\ ~MadaCredentials(Head(proc[p].queue))
  /\ proc' = [proc EXCEPT ![p].queue = Tail(@)]
  /\ UNCHANGED <<cron, retry, listing, now,
                 orgs, brokers, deals, activityLogs, syncLogs, ext,
                 adapterHasUsers, ticks, opened, returned>>

\* insert the sync_logs row of the pass
MadaOpenLog(p) ==
  /\ proc[p].pc = "madaLoop"
  /\ proc[p].queue # <<>>
  /\ MadaCredentials(Head(proc[p].queue))
  /\ syncLogs' = Append(syncLogs, NewLog(Head(proc[p].queue), "mada"))
  /\ proc' = [proc EXCEPT ![p].pc = "madaFetch",
                          ![p].lookback = <<5>>,
                          ![p].org = Head(proc[p].queue),
                          ![p].queue = Tail(@),
                          ![p].logId = Len(syncLogs) + 1,
                          ![p].processed = 0,
                          ![p].errors = 0,
                          ![p].fetchFailed = FALSE]
  /\ opened' = opened + 1
  /\ UNCHANGED <<cron, retry, listing, now,
                 orgs, brokers, deals, activityLogs, ext, adapterHasUsers,
                 ticks, returned>>

\* the loop over the organizations is over
MadaTickEnd(p) ==
  /\ proc[p].pc = "madaLoop"
  /\ proc[p].queue = <<>>
  /\ proc' = [proc EXCEPT ![p] = IdleProc]
  /\ UNCHANGED <<cron, retry, listing, now,
                 orgs, brokers, deals, activityLogs, syncLogs, ext,
                 adapterHasUsers, ticks, opened, returned>>

\* where a Mada pass goes when syncToVetorCore has no conversation left
MadaPc(left) == IF left > 0 THEN "madaConvs" ELSE "madaClose"

\* where the caller goes when its pass has returned
AfterPass(p) == IF p = "manual" THEN "manReply" ELSE "madaLoop"

\* fetchRecentConversations answers
MadaFetchOk(p) ==
  /\ proc[p].pc = "madaFetch"
  /\ \E n \in 0..MaxConvs :
       /\ FetchLen(proc[p].org, "convs", MaxConvs, n)
       /\ proc' = [proc EXCEPT ![p].pc = MadaPc(n), ![p].convs = n,
                               ![p].fetchedConvs = n]
  /\ UNCHANGED <<cron, retry, listing, now,
                 orgs, brokers, deals, activityLogs, syncLogs, ext,
                 adapterHasUsers, ticks, opened, returned>>

\* fetchRecentConversations throws (fetch failed or response not ok): the
\* catch block of the pass closes the row with status 'error'
MadaFetchThrows(p) ==
  /\ proc[p].pc = "madaFetch"
  /\ syncLogs' = FailLog(syncLogs, proc[p].logId, "exception")
  /\ proc' = [proc EXCEPT ![p].pc = AfterPass(p),
                          ![p].fetchFailed = TRUE]
  /\ returned' = returned + 1
  /\ UNCHANGED <<cron, retry, listing, now,
                 orgs, brokers, deals, activityLogs, ext, adapterHasUsers,
                 ticks, opened>>

\* ------------------------------- MadaSyncService.syncToVetorCore (shared)
\* deals whose id equals the conversation's deal id (any organization)
DealsById(id) == {i \in DOMAIN deals : i = id}

\* for (const conversation of conversations): no deal id, or no such deal:
\* one error string, continue; otherwise go on to the update
ConvFind(p) ==
  /\ proc[p].pc = "madaConvs"
  /\ \E c \in ext[proc[p].org].convSet :
       /\ RecordAt(proc[p].org, "convs", proc[p].convs, c)
       /\ IF c.deal_id = 0 \/ DealsById(c.deal_id) = {}
          THEN proc' = [proc EXCEPT ![p].pc = MadaPc(proc[p].convs - 1),
                                    ![p].convs = @ - 1,
                                    ![p].errors = @ + 1]
          ELSE proc' = [proc EXCEPT ![p].pc = "madaConvUpdate",
                                    ![p].conv = c,
                                    ![p].existing = c.deal_id]
  /\ UNCHANGED <<cron, retry, listing, now,
                 orgs, brokers, deals, activityLogs, syncLogs, ext,
                 adapterHasUsers, ticks, opened, returned>>

\* update(deals).set({smart_summary, sentiment, last_activity, updated_at})
ConvDealUpdate(old, c) ==
  [old EXCEPT !.smart_summary = Merge(c.summary, @),
              !.last_activity = c.updated_at]

\* update the deal; a throw is caught and becomes one error string
ConvUpdate(p) ==
  /\ proc[p].pc = "madaConvUpdate"
  /\ LET c == proc[p].conv
         e == proc[p].existing
     IN IF InvalidDate(c.updated_at)
        THEN /\ deals' = deals
             /\ proc' = [proc EXCEPT ![p].pc = MadaPc(proc[p].convs - 1),
                                     ![p].convs = @ - 1,
                                     ![p].errors = @ + 1,
                                     ![p].conv = NoConv,
                                     ![p].existing = 0]
        ELSE /\ deals' = [deals EXCEPT ![e] = ConvDealUpdate(@, c)]
             /\ proc' = [proc EXCEPT ![p].pc = "madaConvInsert"]
  /\ UNCHANGED <<cron, retry, listing, now,
                 orgs, brokers, activityLogs, syncLogs, ext, adapterHasUsers,
                 ticks, opened, returned>>

SummaryRow(dealId) ==
  [deal_id |-> dealId, type |-> "ConversationSummary", crm_note_id |-> Null]

\* the insert without the processed++ after it
ConvInsertUncounted(p) ==
  /\ proc[p].pc = "madaConvInsert"
  /\ activityLogs' = Append(activityLogs, SummaryRow(proc[p].existing))
  /\ proc' = [proc EXCEPT ![p].pc = MadaPc(proc[p].convs - 1),
                          ![p].convs = @ - 1,
                          ![p].conv = NoConv,
                          ![p].existing = 0]
  /\ UNCHANGED <<cron, retry, listing, now,
                 orgs, brokers, deals, syncLogs, ext, adapterHasUsers,
                 ticks, opened, returned>>

\* insert the ConversationSummary activity log; processed++
ConvInsert(p) ==
  /\ proc[p].pc = "madaConvInsert"
  /\ activityLogs' = Append(activityLogs, SummaryRow(proc[p].existing))
  /\ proc' = [proc EXCEPT ![p].pc = MadaPc(proc[p].convs - 1),
                          ![p].convs = @ - 1,
                          ![p].processed = @ + 1,
                          ![p].conv = NoConv,
                          ![p].existing = 0]
  /\ UNCHANGED <<cron, retry, listing, now,
                 orgs, brokers, deals, syncLogs, ext, adapterHasUsers,
                 ticks, opened, returned>>

\* return { success: errors.length === 0, processed, errors, timestamp }
SyncResult(p) ==
  [success |-> proc[p].errors = 0, processed |-> proc[p].processed,
   errors |-> proc[p].errors]

\* result.errors.length > 0 ? result.errors.join('\n') : null
ErrorsJoined(n) == IF n > 0 THEN "errors" ELSE Null

\* scheduled job: close the row with status 'success' and the joined errors
MadaCloseSuccess(p) ==
  /\ p = "madaTick"
  /\ proc[p].pc = "madaClose"
  /\ syncLogs' = CloseLog(syncLogs, proc[p].logId, "success",
                          proc[p].processed, ErrorsJoined(proc[p].errors))
  /\ proc' = [proc EXCEPT ![p].pc = "madaLoop"]
  /\ returned' = returned + 1
  /\ UNCHANGED <<cron, retry, listing, now,
                 orgs, brokers, deals, activityLogs, ext, adapterHasUsers,
                 ticks, opened>>

\* ------------------------------------- manual trigger (routes/sync.ts)
Sources == {"mada", "vetor_imobi", "all"}

Reply(code, r) == [r EXCEPT !.code = code]

\* const { source, minutes = 525600 } = body
DefaultMinutes == 525600

\* fetchUsers(), fetchClients() and fetchDeals() of the manual trigger carry
\* no updated_at filter: every record, whatever its age.  A lookback is kept
\* as <<n>> for a filter of n minutes and as <<>> for no filter
AllHistory == <<>>

\* POST /api/sync of a caller of organization o, with body.minutes one of M
\* (<<n>>, or <<>> when left out): validate the source, load the organization
ManualPost(p, M) ==
  /\ p = "manual"
  /\ proc[p].pc = "idle"
  /\ \E o \in Orgs, src \in Sources \cup {"other"}, m \in M :
       proc' = [proc EXCEPT ![p] =
         IF src \notin Sources
         THEN [IdleProc EXCEPT !.pc = "manDone", !.org = o, !.source = src,
                               !.resp = Reply(400, IdleProc.resp)]
         ELSE [IdleProc EXCEPT !.pc = "manVetor", !.org = o, !.source = src,
                               !.minutes = IF m = <<>> THEN DefaultMinutes
                                           ELSE m[1]]]
  /\ ticks' = ticks + 1
  /\ UNCHANGED <<cron, retry, listing, now,
                 orgs, brokers, deals, activityLogs, syncLogs, ext,
                 adapterHasUsers, opened, returned>>

\* a request whose body leaves minutes out
ManualArrives(p) == ManualPost(p, {<<>>})

\* a request arrives while no other caller is in flight
ManualRequest(p) == MayStart /\ ManualArrives(p)

VetorSelected(p) ==
  /\ proc[p].source \in {"vetor_imobi", "all"}
  /\ orgs[proc[p].org].crm_type = "vetor"

MadaSelected(p) ==
  /\ proc[p].source \in {"mada", "all"}
  /\ orgs[proc[p].org].crm_type = "mada"

\* the Vetor block does not apply: go on to the Mada block
ManualVetorNotSelected(p) ==
  /\ proc[p].pc = "manVetor"
  /\ ~VetorSelected(p)
  /\ proc' = [proc EXCEPT ![p].pc = "manMada"]
  /\ UNCHANGED <<cron, retry, listing, now,
                 orgs, brokers, deals, activityLogs, syncLogs, ext,
                 adapterHasUsers, ticks, opened, returned>>

\* no API key: 400 'Vetor Imobi API key not configured'
ManualVetorNoKey(p) ==
  /\ proc[p].pc = "manVetor"
  /\ VetorSelected(p)
  /\ ~HasKey(proc[p].org, "vetor_api_key")
  /\ proc' = [proc EXCEPT ![p].pc = "manDone",
                          ![p].resp = Reply(400, @)]
  /\ UNCHANGED <<cron, retry, listing, now,
                 orgs, brokers, deals, activityLogs, syncLogs, ext,
                 adapterHasUsers, ticks, opened, returned>>

\* insert the sync_logs row of the Vetor pass
ManualVetorOpenLog(p) ==
  /\ proc[p].pc = "manVetor"
  /\ VetorSelected(p)
  /\ HasKey(proc[p].org, "vetor_api_key")
  /\ syncLogs' = Append(syncLogs, NewLog(proc[p].org, "vetor_imobi"))
  /\ proc' = [proc EXCEPT ![p].pc = "manFetch",
                          ![p].lookback = AllHistory,
                          ![p].logId = Len(syncLogs) + 1,
                          ![p].processed = 0,
                          ![p].caught = 0,
                          ![p].fetchedUsers = 0,
                          ![p].fetchedDeals = 0,
                          ![p].fetchFailed = FALSE,
                          ![p].resp.logIds = Append(@, Len(syncLogs) + 1)]
  /\ opened' = opened + 1
  /\ UNCHANGED <<cron, retry, listing, now,
                 orgs, brokers, deals, activityLogs, ext, adapterHasUsers,
                 ticks, returned>>

ManualPc(users, dealsLeft) ==
  IF users > 0 THEN "manUsers"
  ELSE IF dealsLeft > 0 THEN "manDeals"
  ELSE "manClose"

\* Promise.all([fetchUsers(), fetchClients(), fetchDeals()]) answers
ManualFetchOk(p) ==
  /\ proc[p].pc = "manFetch"
  /\ \E nu \in 0..MaxUsers, nd \in 0..MaxDeals :
       /\ FetchLen(proc[p].org, "users", MaxUsers, nu)
       /\ FetchLen(proc[p].org, "deals", MaxDeals, nd)
       /\ proc' = [proc EXCEPT ![p].pc = ManualPc(nu, nd),
                               ![p].users = nu,
                               ![p].deals = nd,
                               ![p].fetchedUsers = nu,
                               ![p].fetchedDeals = nd]
  /\ UNCHANGED <<cron, retry, listing, now,
                 orgs, brokers, deals, activityLogs, syncLogs, ext,
                 adapterHasUsers, ticks, opened, returned>>

\* one of the fetches throws: the catch block closes the row with status
\* 'error' and the handler goes on to the Mada block
ManualFetchThrows(p) ==
  /\ proc[p].pc = "manFetch"
  /\ syncLogs' = FailLog(syncLogs, proc[p].logId, "exception")
  /\ proc' = [proc EXCEPT ![p].pc = "manMada",
                          ![p].fetchFailed = TRUE]
  /\ returned' = returned + 1
  /\ UNCHANGED <<cron, retry, listing, now,
                 orgs, brokers, deals, activityLogs, ext, adapterHasUsers,
                 ticks, opened>>

\* for (const user of users): select the broker with this external id
ManualUserFind(p) ==
  /\ proc[p].pc = "manUsers"
  /\ \E u \in ext[proc[p].org].userSet :
       /\ RecordAt(proc[p].org, "users", proc[p].users, u)
       /\ \E e \in FirstOf(BrokersByExternalId(u.id)) :
            proc' = [proc EXCEPT ![p].pc = "manUserWrite",
                                 ![p].user = u,
                                 ![p].existing = e]
  /\ UNCHANGED <<cron, retry, listing, now,
                 orgs, brokers, deals, activityLogs, syncLogs, ext,
                 adapterHasUsers, ticks, opened, returned>>

\* update the broker found if it belongs to this organization, insert one
\* if none was found; recordsProcessed++ in every case
ManualUserWrite(p) ==
  /\ proc[p].pc = "manUserWrite"
  /\ LET u == proc[p].user
         e == proc[p].existing
     IN brokers' =
          IF e # 0
          THEN IF brokers[e].organization_id = proc[p].org
               THEN [brokers EXCEPT ![e].email = Merge(u.email, @),
                                    ![e].is_active = IsActive(u)]
               ELSE brokers
          ELSE Append(brokers, BrokerRow(proc[p].org, u))
  /\ proc' = [proc EXCEPT
       ![p].pc = ManualPc(proc[p].users - 1, proc[p].deals),
       ![p].users = @ - 1,
       ![p].processed = @ + 1,
       ![p].user = NoUser,
       ![p].existing = 0]
  /\ UNCHANGED <<cron, retry, listing, now,
                 orgs, deals, activityLogs, syncLogs, ext, adapterHasUsers,
                 ticks, opened, returned>>

\* for (const vetorDeal of dealsData): select the broker by e-mail and the
\* deal by title, both within the organization
ManualDealFind(p) ==
  /\ proc[p].pc = "manDeals"
  /\ \E d \in ext[proc[p].org].dealSet :
       /\ RecordAt(proc[p].org, "deals", proc[p].deals, d)
       /\ \E b \in FirstOf({i \in BrokersByEmail(d.agent_email) :
                              brokers[i].organization_id = proc[p].org}),
             e \in FirstOf({i \in DealsByTitle(d.title) :
                              deals[i].organization_id = proc[p].org}) :
            proc' = [proc EXCEPT ![p].pc = "manDealWrite",
                                 ![p].deal = d,
                                 ![p].broker = b,
                                 ![p].existing = e]
  /\ UNCHANGED <<cron, retry, listing, now,
                 orgs, brokers, deals, activityLogs, syncLogs, ext,
                 adapterHasUsers, ticks, opened, returned>>

\* dealData of the manual trigger: no external_id
ManualDealRow(org, broker, d) ==
  [organization_id |-> org, broker_id |-> broker, external_id |-> Null,
   property_title |-> d.title, status |-> mapVetorStage(d.stage),
   last_activity |-> d.last_activity_at, smart_summary |-> Null]

ManualDealUpdate(old, org, broker, d) ==
  [old EXCEPT !.organization_id = org,
              !.broker_id = IF broker = 0 THEN @ ELSE broker,
              !.property_title = Merge(d.title, @),
              !.status = mapVetorStage(d.stage),
              !.last_activity = Merge(d.last_activity_at, @)]

\* update the deal found, or insert one; a throw is caught per record
ManualDealWrite(p) ==
  /\ proc[p].pc = "manDealWrite"
  /\ LET d == proc[p].deal
         e == proc[p].existing
         b == proc[p].broker
     IN IF InvalidDate(d.last_activity_at)
        THEN /\ deals' = deals
             /\ proc' = [proc EXCEPT
                  ![p].pc = ManualPc(0, proc[p].deals - 1),
                  ![p].deals = @ - 1,
                  ![p].caught = @ + 1,
                  ![p].deal = NoDeal, ![p].broker = 0, ![p].existing = 0]
        ELSE /\ deals' =
                  IF e # 0
                  THEN [deals EXCEPT
                          ![e] = ManualDealUpdate(@, proc[p].org, b, d)]
                  ELSE Append(deals, ManualDealRow(proc[p].org, b, d))
             /\ proc' = [proc EXCEPT
                  ![p].pc = IF d.notes # Null THEN "manDealNote"
                            ELSE ManualPc(0, proc[p].deals - 1),
                  ![p].deals = IF d.notes # Null THEN @ ELSE @ - 1,
                  ![p].processed = IF d.notes # Null THEN @ ELSE @ + 1,
                  ![p].existing = IF d.notes = Null THEN 0
                                  ELSE IF e # 0 THEN e ELSE Len(deals) + 1,
                  ![p].deal = IF d.notes # Null THEN d ELSE NoDeal,
                  ![p].broker = 0]
  /\ UNCHANGED <<cron, retry, listing, now,
                 orgs, brokers, activityLogs, syncLogs, ext, adapterHasUsers,
                 ticks, opened, returned>>

\* if (vetorDeal.notes && dealId): insert an activity log of type 'note'
\* dated new Date(vetorDeal.created_date); a throw is caught per record
ManualDealNote(p) ==
  /\ proc[p].pc = "manDealNote"
  /\ LET d == proc[p].deal
         bad == d.created_date = Null \/ InvalidDate(d.created_date)
     IN /\ activityLogs' =
             IF bad THEN activityLogs
             ELSE Append(activityLogs, NoteRow(proc[p].existing, Null))
        /\ proc' = [proc EXCEPT
             ![p].pc = ManualPc(0, proc[p].deals - 1),
             ![p].deals = @ - 1,
             ![p].processed = IF bad THEN @ ELSE @ + 1,
             ![p].caught = IF bad THEN @ + 1 ELSE @,
             ![p].deal = NoDeal, ![p].existing = 0]
  /\ UNCHANGED <<cron, retry, listing, now,
                 orgs, brokers, deals, syncLogs, ext, adapterHasUsers,
                 ticks, opened, returned>>

\* the Vetor pass ran to its end: close the row with status 'success'
ManualVetorClose(p) ==
  /\ proc[p].pc = "manClose"
  /\ syncLogs' = CloseLog(syncLogs, proc[p].logId, "success",
                          proc[p].processed,
                          syncLogs[proc[p].logId].error_message)
  /\ proc' = [proc EXCEPT
       ![p].pc = "manMada",
       ![p].resp.recordsProcessed = @ + proc[p].processed]
  /\ returned' = returned + 1
  /\ UNCHANGED <<cron, retry, listing, now,
                 orgs, brokers, deals, activityLogs, ext, adapterHasUsers,
                 ticks, opened>>

\* the Mada block does not apply: reply
ManualMadaNotSelected(p) ==
  /\ proc[p].pc = "manMada"
  /\ ~MadaSelected(p)
  /\ proc' = [proc EXCEPT ![p].pc = "manReply"]
  /\ UNCHANGED <<cron, retry, listing, now,
                 orgs, brokers, deals, activityLogs, syncLogs, ext,
                 adapterHasUsers, ticks, opened, returned>>

\* missing credentials: 400 'Mada API credentials not configured'
ManualMadaNoCreds(p) ==
  /\ proc[p].pc = "manMada"
  /\ MadaSelected(p)
  /\ ~MadaCredentials(proc[p].org)
  /\ proc' = [proc EXCEPT ![p].pc = "manDone",
                          ![p].resp = Reply(400, @)]
  /\ UNCHANGED <<cron, retry, listing, now,
                 orgs, brokers, deals, activityLogs, syncLogs, ext,
                 adapterHasUsers, ticks, opened, returned>>

\* insert the sync_logs row of the Mada pass
ManualMadaOpenLog(p) ==
  /\ proc[p].pc = "manMada"
  /\ MadaSelected(p)
  /\ MadaCredentials(proc[p].org)
  /\ syncLogs' = Append(syncLogs, NewLog(proc[p].org, "mada"))
  /\ proc' = [proc EXCEPT ![p].pc = "madaFetch",
                          ![p].lookback = <<proc[p].minutes>>,
                          ![p].logId = Len(syncLogs) + 1,
                          ![p].processed = 0,
                          ![p].errors = 0,
                          ![p].fetchFailed = FALSE,
                          ![p].resp.logIds = Append(@, Len(syncLogs) + 1)]
  /\ opened' = opened + 1
  /\ UNCHANGED <<cron, retry, listing, now,
                 orgs, brokers, deals, activityLogs, ext, adapterHasUsers,
                 ticks, returned>>

\* the Mada pass ran to its end: close the row with status 'success'; the
\* set() has no error_message
ManualMadaClose(p) ==
  /\ p = "manual"
  /\ proc[p].pc = "madaClose"
  /\ syncLogs' = CloseLog(syncLogs, proc[p].logId, "success",
                          proc[p].processed,
                          syncLogs[proc[p].logId].error_message)
  /\ proc' = [proc EXCEPT
       ![p].pc = "manReply",
       ![p].resp.recordsProcessed = @ + proc[p].processed]
  /\ returned' = returned + 1
  /\ UNCHANGED <<cron, retry, listing, now,
                 orgs, brokers, deals, activityLogs, ext, adapterHasUsers,
                 ticks, opened>>

\* reply.send({ status: 'success', recordsProcessed, message, syncLogIds })
ManualReply(p) ==
  /\ proc[p].pc = "manReply"
  /\ proc' = [proc EXCEPT ![p].pc = "manDone",
                          ![p].resp = Reply(200, @)]
  /\ UNCHANGED <<cron, retry, listing, now,
                 orgs, brokers, deals, activityLogs, syncLogs, ext,
                 adapterHasUsers, ticks, opened, returned>>

\* the response has been delivered
ManualReturn(p) ==
  /\ proc[p].pc = "manDone"
  /\ proc' = [proc EXCEPT ![p] = IdleProc]
  /\ UNCHANGED <<cron, retry, listing, now,
                 orgs, brokers, deals, activityLogs, syncLogs, ext,
                 adapterHasUsers, ticks, opened, returned>>

Next ==
  \E p \in Procs :
    \/ VetorTickStart(p)
    \/ VetorSkipOrg(p)
    \/ VetorOpenLog(p)
    \/ VetorTickEnd(p)
    \/ VetorFetchOk(p)
    \/ VetorFetchThrows(p)
    \/ VetorFetchNoUsers(p)
    \/ VetorUserFind(p)
    \/ VetorUserWrite(p)
    \/ VetorDealFind(p)
    \/ VetorDealWrite(p)
    \/ VetorNotesFetchOk(p)
    \/ VetorNotesFetchThrows(p)
    \/ VetorNoteStep(p)
    \/ VetorCloseSuccess(p)
    \/ MadaTickStart(p)
    \/ MadaSkipOrg(p)
    \/ MadaOpenLog(p)
    \/ MadaTickEnd(p)
    \/ MadaFetchOk(p)
    \/ MadaFetchThrows(p)
    \/ ConvFind(p)
    \/ ConvUpdate(p)
    \/ ConvInsert(p)
    \/ MadaCloseSuccess(p)
    \/ ManualRequest(p)
    \/ ManualVetorNotSelected(p)
    \/ ManualVetorNoKey(p)
    \/ ManualVetorOpenLog(p)
    \/ ManualFetchOk(p)
    \/ ManualFetchThrows(p)
    \/ ManualUserFind(p)
    \/ ManualUserWrite(p)
    \/ ManualDealFind(p)
    \/ ManualDealWrite(p)
    \/ ManualDealNote(p)
    \/ ManualVetorClose(p)
    \/ ManualMadaNotSelected(p)
    \/ ManualMadaNoCreds(p)
    \/ ManualMadaOpenLog(p)
    \/ ManualMadaClose(p)
    \/ ManualReply(p)
    \/ ManualReturn(p)

Spec == Init /\ [][Next]_vars

\* ------------------------------------------- repeated passes, frozen data
Range(q) == {q[i] : i \in 1..Len(q)}

SeqsUpTo(S, n) == UNION {[1..k -> S] : k \in 0..n}

\* an external system whose dataset does not change between fetches
FrozenExt(users, dealRecs, notes, convs) ==
  [frozen |-> TRUE, users |-> users, deals |-> dealRecs, notes |-> notes,
   convs |-> convs, userSet |-> Range(users), dealSet |-> Range(dealRecs),
   noteSet |-> Range(notes), convSet |-> Range(convs)]

IdemUsers ==
  {User("u1", "e1", FALSE, "active"), User(Null, "e1", FALSE, "active")}

IdemDeals ==
  {Deal("d1", "t1", "e1", <<"perdido">>, "ts", Null, Null),
   Deal("d1", Null, "e1", <<"perdido">>, "ts", Null, Null),
   Deal(Null, "t1", "e1", <<"perdido">>, "ts", "txt", "ts")}

IdemNotes == {Note("n1", "d1", FALSE)}

\* organization A is synced from Vetor; its external dataset is frozen
InitIdem ==
  /\ InitDb
  /\ cron = DefaultCron
  /\ orgs = [o \in Orgs |->
               IF o = "A"
               THEN [crm_type |-> "vetor", crm_config |-> {"vetor_api_key"}]
               ELSE [crm_type |-> "none", crm_config |-> {}]]
  /\ adapterHasUsers = TRUE
  /\ \E us \in SeqsUpTo(IdemUsers, MaxUsers),
        ds \in SeqsUpTo(IdemDeals, MaxDeals),
        ns \in SeqsUpTo(IdemNotes, MaxNotes) :
       ext = [o \in Orgs |->
                IF o = "A" THEN FrozenExt(us, ds, ns, <<>>)
                ELSE FreeExt({}, {}, {}, {})]

NextIdem ==
  \E p \in Procs :
    \/ VetorTickStart(p)
    \/ VetorOpenLog(p)
    \/ VetorTickEnd(p)
    \/ VetorFetchOk(p)
    \/ VetorFetchThrows(p)
    \/ VetorUserFind(p)
    \/ VetorUserWrite(p)
    \/ VetorDealFind(p)
    \/ VetorDealWrite(p)
    \/ VetorNotesFetchOk(p)
    \/ VetorNotesFetchThrows(p)
    \/ VetorNoteStep(p)
    \/ VetorCloseSuccess(p)
    \/ ManualRequest(p)
    \/ ManualVetorNotSelected(p)
    \/ ManualVetorOpenLog(p)
    \/ ManualFetchOk(p)
    \/ ManualFetchThrows(p)
    \/ ManualUserFind(p)
    \/ ManualUserWrite(p)
    \/ ManualDealFind(p)
    \/ ManualDealWrite(p)
    \/ ManualDealNote(p)
    \/ ManualVetorClose(p)
    \/ ManualMadaNotSelected(p)
    \/ ManualReply(p)
    \/ ManualReturn(p)

SpecIdem == InitIdem /\ [][NextIdem]_vars

\* ------------------------------------------------- overlapping callers
\* the timer and the route know nothing of each other: a tick fires and a
\* request arrives whatever is in flight
VetorTickOverlaps(p) == ticks < MaxTicks /\ VetorTickFires(p)

ManualOverlaps(p) == ticks < MaxTicks /\ ManualArrives(p)

RaceUsers == {User("u1", "e1", FALSE, "active")}

\* one external deal, seen in two successive states by two fetches
RaceDeals ==
  {Deal("d1", "t1", "e1", <<"perdido">>, "ts1", Null, Null),
   Deal("d1", "t1", "e1", <<"fechado">>, "ts2", Null, Null)}

RaceNotes == {Note("n1", "d1", FALSE)}

\* organization A is synced from Vetor, on a timer and on request
InitRace ==
  /\ InitDb
  /\ cron = DefaultCron
  /\ orgs = [o \in Orgs |->
               IF o = "A"
               THEN [crm_type |-> "vetor", crm_config |-> {"vetor_api_key"}]
               ELSE [crm_type |-> "none", crm_config |-> {}]]
  /\ adapterHasUsers = TRUE
  /\ ext = [o \in Orgs |-> FreeExt(RaceUsers, RaceDeals, RaceNotes, {})]

NextRace ==
  \E p \in Procs :
    \/ VetorTickOverlaps(p)
    \/ VetorOpenLog(p)
    \/ VetorTickEnd(p)
    \/ VetorFetchOk(p)
    \/ VetorFetchThrows(p)
    \/ VetorUserFind(p)
    \/ VetorUserWrite(p)
    \/ VetorDealFind(p)
    \/ VetorDealWrite(p)
    \/ VetorNotesFetchOk(p)
    \/ VetorNotesFetchThrows(p)
    \/ VetorNoteStep(p)
    \/ VetorCloseSuccess(p)
    \/ ManualOverlaps(p)
    \/ ManualVetorNotSelected(p)
    \/ ManualVetorOpenLog(p)
    \/ ManualFetchOk(p)
    \/ ManualFetchThrows(p)
    \/ ManualUserFind(p)
    \/ ManualUserWrite(p)
    \/ ManualDealFind(p)
    \/ ManualDealWrite(p)
    \/ ManualVetorClose(p)
    \/ ManualMadaNotSelected(p)
    \/ ManualReply(p)
    \/ ManualReturn(p)

SpecRace == InitRace /\ [][NextRace]_vars

\* ------------------------------------------ field mapping, one tenant
FieldUsers ==
  {User("u1", "e1", d, st) : d \in BOOLEAN, st \in {"active", "inactive"}}
    \cup {User("u1", Null, FALSE, "active")}

\* stages in the vocabulary of mapVetorStage, alone and combined, one
\* capitalised, one unknown, one empty
FieldStages ==
  {<<>>, <<"perdido">>, <<"fechado">>, <<"proposta">>, <<"negociacao">>,
   <<"visita">>, <<"qualificacao">>, <<"outro">>, <<"Perdido">>,
   <<"fechado", "perdido">>, <<"visita", "proposta">>,
   <<"qualificacao", "visita">>, <<"negociacao", "fechado">>,
   <<"outro", "qualificacao">>}

FieldDeals ==
  {Deal("d1", "t1", "e1", st, "ts", Null, Null) : st \in FieldStages}
    \cup {Deal("d2", "t1", "e1", <<"fechado">>, "ts", Null, Null),
          Deal("d1", "t1", Null, <<"visita">>, Null, Null, Null)}

FieldNotes == {Note("n1", "d1", FALSE)}

\* organization A is synced from Vetor; the API answers any of the records
InitFields ==
  /\ InitDb
  /\ cron = DefaultCron
  /\ orgs = [o \in Orgs |->
               IF o = "A"
               THEN [crm_type |-> "vetor", crm_config |-> {"vetor_api_key"}]
               ELSE [crm_type |-> "none", crm_config |-> {}]]
  /\ adapterHasUsers = TRUE
  /\ ext = [o \in Orgs |->
              FreeExt(FieldUsers, FieldDeals, FieldNotes, {})]

NextFields ==
  \E p \in Procs :
    \/ VetorTickStart(p)
    \/ VetorOpenLog(p)
    \/ VetorTickEnd(p)
    \/ VetorFetchOk(p)
    \/ VetorUserFind(p)
    \/ VetorUserWrite(p)
    \/ VetorDealFind(p)
    \/ VetorDealWrite(p)
    \/ VetorNotesFetchOk(p)
    \/ VetorNoteStep(p)
    \/ VetorCloseSuccess(p)
    \/ ManualRequest(p)
    \/ ManualVetorNotSelected(p)
    \/ ManualVetorOpenLog(p)
    \/ ManualFetchOk(p)
    \/ ManualUserFind(p)
    \/ ManualUserWrite(p)
    \/ ManualDealFind(p)
    \/ ManualDealWrite(p)
    \/ ManualVetorClose(p)
    \/ ManualMadaNotSelected(p)
    \/ ManualReply(p)
    \/ ManualReturn(p)

SpecFields == InitFields /\ [][NextFields]_vars

\* ------------------------------------- one scheduled pass, known dataset
OrderUsers == {User("u1", "e1", FALSE, "active")}

\* two external deals that share a title
OrderDeals ==
  {Deal("d1", "t1", "e1", <<"perdido">>, "ts", Null, Null),
   Deal("d2", "t1", Null, <<"visita">>, "ts", Null, Null)}

OrderNotes == {Note("n1", "d1", FALSE), Note("n2", "d2", TRUE)}

\* organization A is synced from Vetor on the timer; its dataset is fixed
InitOrder ==
  /\ InitDb
  /\ cron = DefaultCron
  /\ orgs = [o \in Orgs |->
               IF o = "A"
               THEN [crm_type |-> "vetor", crm_config |-> {"vetor_api_key"}]
               ELSE [crm_type |-> "none", crm_config |-> {}]]
  /\ adapterHasUsers = TRUE
  /\ \E us \in SeqsUpTo(OrderUsers, MaxUsers),
        ds \in SeqsUpTo(OrderDeals, MaxDeals),
        ns \in SeqsUpTo(OrderNotes, MaxNotes) :
       ext = [o \in Orgs |->
                IF o = "A" THEN FrozenExt(us, ds, ns, <<>>)
                ELSE FreeExt({}, {}, {}, {})]

NextOrder ==
  \E p \in Procs :
    \/ VetorTickStart(p)
    \/ VetorOpenLog(p)
    \/ VetorTickEnd(p)
    \/ VetorFetchOk(p)
    \/ VetorUserFind(p)
    \/ VetorUserWrite(p)
    \/ VetorDealFind(p)
    \/ VetorDealWrite(p)
    \/ VetorNotesFetchOk(p)
    \/ VetorNoteStep(p)
    \/ VetorCloseSuccess(p)

SpecOrder == InitOrder /\ [][NextOrder]_vars

\* ----------------------------------------- schedules and lookback windows
\* the schedules the jobs are started with: neither variable set; every
\* half hour and every hour; a text that is no '*/N * * * *' and every five
\* minutes
CronConfigs ==
  {DefaultCron,
   [mada |-> Every(30), vetor |-> Every(60)],
   [mada |-> OtherCron, vetor |-> Every(5)]}

\* parseCronInterval: the interval of setInterval, in milliseconds
parseCronInterval(expr) ==
  IF expr.form = "everyN" THEN expr.n * 60 * 1000 ELSE 5 * 60 * 1000

\* body.minutes of the manual requests: left out, or one hour
BodyMinutes == {<<>>, <<60>>}

SchedUsers == {User("u1", "e1", FALSE, "active")}

SchedDeals == {Deal("d1", "t1", "e1", <<"perdido">>, "ts", Null, Null)}

SchedNotes == {Note("n1", "d1", FALSE)}

SchedConvs == {Conv("c1", 1, "s1", "ts")}

\* a request with or without minutes arrives while no other caller is in
\* flight
ManualRequestMinutes(p) == MayStart /\ ManualPost(p, BodyMinutes)

\* A is synced from Vetor, B from Vetor or from Mada; the jobs were started
\* with any of the schedules
InitSched ==
  /\ InitDb
  /\ cron \in CronConfigs
  /\ \E b \in {[crm_type |-> "vetor", crm_config |-> {"vetor_api_key"}],
                [crm_type |-> "mada",
                 crm_config |-> {"mada_supabase_url", "mada_supabase_key"}]} :
       orgs = [o \in Orgs |->
                 IF o = "A"
                 THEN [crm_type |-> "vetor", crm_config |-> {"vetor_api_key"}]
                 ELSE b]
  /\ adapterHasUsers = TRUE
  /\ ext = [o \in Orgs |->
              FreeExt(SchedUsers, SchedDeals, SchedNotes, SchedConvs)]

NextSched ==
  \E p \in Procs :
    \/ VetorTickStart(p)
    \/ VetorOpenLog(p)
    \/ VetorTickEnd(p)
    \/ VetorFetchOk(p)
    \/ VetorFetchThrows(p)
    \/ VetorFetchHangs(p)
    \/ VetorUserFind(p)
    \/ VetorUserWrite(p)
    \/ VetorDealFind(p)
    \/ VetorDealWrite(p)
    \/ VetorNotesFetchOk(p)
    \/ VetorNoteStep(p)
    \/ VetorCloseSuccess(p)
    \/ MadaTickStart(p)
    \/ MadaOpenLog(p)
    \/ MadaTickEnd(p)
    \/ MadaFetchOk(p)
    \/ MadaFetchThrows(p)
    \/ ConvFind(p)
    \/ ConvUpdate(p)
    \/ ConvInsert(p)
    \/ MadaCloseSuccess(p)
    \/ ManualRequestMinutes(p)
    \/ ManualVetorNotSelected(p)
    \/ ManualVetorOpenLog(p)
    \/ ManualFetchOk(p)
    \/ ManualFetchThrows(p)
    \/ ManualUserFind(p)
    \/ ManualUserWrite(p)
    \/ ManualDealFind(p)
    \/ ManualDealWrite(p)
    \/ ManualVetorClose(p)
    \/ ManualMadaNotSelected(p)
    \/ ManualMadaOpenLog(p)
    \/ ManualMadaClose(p)
    \/ ManualReply(p)
    \/ ManualReturn(p)

SpecSched == InitSched /\ [][NextSched]_vars

\* ------------------------------------------- first pass over empty tables
ScenUsers ==
  {User("u1", "e1", FALSE, "active"), User("u2", "e2", FALSE, "active")}

ScenDeals ==
  {Deal("d1", "t1", "e1", <<"foo">>, "ts", Null, Null),
   Deal("d2", "t2", "e1", <<"perdido">>, "ts", Null, Null),
   Deal("d3", "t3", "e2", <<"qualificacao">>, "ts", Null, Null)}

\* no element twice
Distinct(q) == \A i, j \in 1..Len(q) : i # j => q[i] # q[j]

\* A is synced from Vetor and has no rows; the API holds well-formed users
\* and deals with distinct ids and titles; the adapter is either build
InitScen ==
  /\ InitDb
  /\ cron = DefaultCron
  /\ orgs = [o \in Orgs |->
               IF o = "A"
               THEN [crm_type |-> "vetor", crm_config |-> {"vetor_api_key"}]
               ELSE [crm_type |-> "none", crm_config |-> {}]]
  /\ adapterHasUsers \in BOOLEAN
  /\ \E us \in SeqsUpTo(ScenUsers, MaxUsers),
        ds \in SeqsUpTo(ScenDeals, MaxDeals) :
       /\ Distinct(us)
       /\ Distinct(ds)
       /\ ext = [o \in Orgs |->
                   IF o = "A" THEN FrozenExt(us, ds, <<>>, <<>>)
                   ELSE FreeExt({}, {}, {}, {})]

NextScen ==
  \E p \in Procs :
    \/ VetorTickStart(p)
    \/ VetorOpenLog(p)
    \/ VetorTickEnd(p)
    \/ VetorFetchOk(p)
    \/ VetorFetchNoUsers(p)
    \/ VetorUserFind(p)
    \/ VetorUserWrite(p)
    \/ VetorDealFind(p)
    \/ VetorDealWrite(p)
    \/ VetorNotesFetchOk(p)
    \/ VetorCloseSuccess(p)

SpecScen == InitScen /\ [][NextScen]_vars

\* ------------------------------------------------- withRetry (db/index.ts)
MaxRetries == 3    \* largest maxRetries a call is given

\* what an operation may throw: an Error with a message, or a bare string
Thrown(isError, message) == [isError |-> isError, message |-> message]

Errors ==
  {Thrown(TRUE, "fetch failed"), Thrown(TRUE, "ETIMEDOUT"),
   Thrown(TRUE, "ECONNRESET"), Thrown(TRUE, "connection"),
   Thrown(TRUE, "syntax error"), Thrown(FALSE, "connection")}

\* what an operation may return
Results == {"rows"}

\* one invocation of the operation, as it ended
Outcome(ok, error) == [ok |-> ok, error |-> error]
NoError == Thrown(FALSE, Null)

\* error instanceof Error && (message.includes('fetch failed') || ...)
isConnectionError(error) ==
  /\ error.isError
  /\ error.message \in {"fetch failed", "ETIMEDOUT", "ECONNRESET",
                        "connection"}

\* withRetry(operation, maxRetries, baseDelay) has been called: attempt = 0
RetryCall(maxRetries, baseDelay) ==
  [pc |-> "loop", maxRetries |-> maxRetries, baseDelay |-> baseDelay,
   attempt |-> 0, lastError |-> NoError, result |-> Null,
   history |-> <<>>, delays |-> <<>>]

\* the records of the other components stay as they are
OnlyRetry ==
  UNCHANGED <<orgs, brokers, deals, activityLogs, syncLogs, proc, ext,
              adapterHasUsers, ticks, opened, returned, cron, listing, now>>

\* for (...; attempt < maxRetries; ...): invoke the operation, or leave the
\* loop and throw lastError
RetryLoopTest ==
  /\ retry.pc = "loop"
  /\ retry' = IF retry.attempt < retry.maxRetries
              THEN [retry EXCEPT !.pc = "invoke"]
              ELSE [retry EXCEPT !.pc = "thrown"]
  /\ OnlyRetry

\* return await operation()
RetryOperationReturns ==
  /\ retry.pc = "invoke"
  /\ \E v \in Results :
       retry' = [retry EXCEPT !.pc = "returned", !.result = v,
                              !.history = Append(@, Outcome(TRUE, NoError))]
  /\ OnlyRetry

\* the catch with attempt === maxRetries in place of maxRetries - 1: the
\* last failure waits once more before the loop ends
RetryOperationThrowsLate ==
  /\ retry.pc = "invoke"
  /\ \E e \in Errors :
       retry' =
         IF ~isConnectionError(e) \/ retry.attempt = retry.maxRetries
         THEN [retry EXCEPT !.pc = "thrown", !.lastError = e,
                            !.history = Append(@, Outcome(FALSE, e))]
         ELSE [retry EXCEPT !.pc = "sleep", !.lastError = e,
                            !.history = Append(@, Outcome(FALSE, e)),
                            !.delays =
                              Append(@, retry.baseDelay * 2^retry.attempt)]
  /\ OnlyRetry

\* catch (error): rethrow, or wait baseDelay * 2^attempt
RetryOperationThrows ==
  /\ retry.pc = "invoke"
  /\ \E e \in Errors :
       retry' =
         IF ~isConnectionError(e) \/ retry.attempt = retry.maxRetries - 1
         THEN [retry EXCEPT !.pc = "thrown", !.lastError = e,
                            !.history = Append(@, Outcome(FALSE, e))]
         ELSE [retry EXCEPT !.pc = "sleep", !.lastError = e,
                            !.history = Append(@, Outcome(FALSE, e)),
                            !.delays =
                              Append(@, retry.baseDelay * 2^retry.attempt)]
  /\ OnlyRetry

\* the timer of the delay fires: attempt++
RetryWakes ==
  /\ retry.pc = "sleep"
  /\ retry' = [retry EXCEPT !.pc = "loop", !.attempt = @ + 1]
  /\ OnlyRetry

InitRetry ==
  /\ InitTables
  /\ cron = DefaultCron
  /\ orgs = [o \in Orgs |-> [crm_type |-> "none", crm_config |-> {}]]
  /\ ext = [o \in Orgs |-> FreeExt({}, {}, {}, {})]
  /\ adapterHasUsers = TRUE
  /\ listing = NoListing
  /\ now = 0
  /\ \E m \in 0..MaxRetries, b \in {100, 200} : retry = RetryCall(m, b)

NextRetry ==
  \/ RetryLoopTest
  \/ RetryOperationReturns
  \/ RetryOperationThrows
  \/ RetryWakes

\* every invocation returns or throws, and every timer fires
SpecRetry == InitRetry /\ [][NextRetry]_vars /\ WF_vars(NextRetry)

\* ------------------------------------ GET and PUT /api/deals (deals.ts)
MaxRows == 3       \* deals in the table when the requests start
MaxPuts == 1       \* PUT requests in one behaviour

\* a deals row with the two timestamps the routes read and write
ApiDealRow(org, title, created, updated) ==
  [organization_id |-> org, broker_id |-> 0, external_id |-> Null,
   property_title |-> title, status |-> "New", last_activity |-> Null,
   smart_summary |-> Null, created_at |-> created, updated_at |-> updated]

\* tables of up to MaxRows deals of the two tenants: the k-th row was
\* created at instant k and was last updated then, or at instant MaxRows + 1
ApiTables ==
  UNION {{t \in [1..n -> {ApiDealRow(o, "t1", c, u) :
                             o \in Orgs, c \in 1..MaxRows,
                             u \in 1..(MaxRows + 1)}] :
            \A k \in 1..n : /\ t[k].created_at = k
                            /\ t[k].updated_at \in {k, MaxRows + 1}} :
         n \in 0..MaxRows}

\* eq(deals.organization_id, user.organization_id)
RowsOfDeals(o) == {i \in DOMAIN deals : deals[i].organization_id = o}

\* Math.min(100, Math.max(1, parseInt(query.limit || '20', 10)))
ParseLimit(l) ==
  LET n == IF l = <<>> THEN 20 ELSE l[1]
      atLeast1 == IF n < 1 THEN 1 ELSE n
  IN IF atLeast1 > 100 THEN 100 ELSE atLeast1

\* where(organization_id = o).orderBy(desc(deals.updated_at)): the orders
\* the database may return the rows of o in; rows with the same updated_at
\* come in any order
ListOrders(o) ==
  {q \in Orderings(RowsOfDeals(o)) :
     \A i, j \in 1..Len(q) :
       i < j => deals[q[i]].updated_at >= deals[q[j]].updated_at}

\* .limit(limit).offset((page - 1) * limit) of an ordered result
PageOf(q, page, limit) ==
  LET offset == (page - 1) * limit
      last == IF offset + limit > Len(q) THEN Len(q) ELSE offset + limit
  IN [k \in 1..(IF last > offset THEN last - offset ELSE 0) |->
        q[offset + k]]

\* the records of the other components stay as they are
OnlyListing ==
  UNCHANGED <<orgs, brokers, deals, activityLogs, syncLogs, proc, ext,
              adapterHasUsers, ticks, opened, returned, cron, retry, now>>

\* GET /api/deals?page=1&limit=l of a caller of organization o
ListFirstPage ==
  /\ \E o \in Orgs, l \in {<<0>>, <<1>>, <<2>>} :
       \E q \in ListOrders(o) :
         listing' = [organization_id |-> o, limit |-> ParseLimit(l),
                     pages |-> <<PageOf(q, 1, ParseLimit(l))>>,
                     totals |-> <<Cardinality(RowsOfDeals(o))>>]
  /\ OnlyListing

\* the same caller asks for the next page while the total says there is one
ListNextPage ==
  /\ listing.organization_id # Null
  /\ Len(listing.pages) * listing.limit < listing.totals[1]
  /\ \E q \in ListOrders(listing.organization_id) :
       listing' =
         [listing EXCEPT
            !.pages = Append(@, PageOf(q, Len(listing.pages) + 1,
                                       listing.limit)),
            !.totals = Append(@, Cardinality(
                                   RowsOfDeals(listing.organization_id)))]
  /\ OnlyListing

\* PUT /api/deals/:id of a caller of organization o with body.broker_id b
\* (<<>>: left out): one UPDATE ... WHERE id AND organization_id; a
\* broker_id that is no brokers row violates the foreign key and nothing is
\* written.  A listing in progress is over once the table has changed.
DealPut ==
  /\ now < MaxRows + 1 + MaxPuts
  /\ \E o \in Orgs, id \in DOMAIN deals,
        b \in {<<>>} \cup {<<k>> : k \in 1..(Len(brokers) + 1)} :
       deals' =
         IF deals[id].organization_id # o
            \/ (b # <<>> /\ b[1] \notin DOMAIN brokers)
         THEN deals
         ELSE [deals EXCEPT ![id].updated_at = now + 1,
                            ![id].broker_id = IF b = <<>> THEN @ ELSE b[1]]
  /\ now' = now + 1
  /\ listing' = NoListing
  /\ UNCHANGED <<orgs, brokers, activityLogs, syncLogs, proc, ext,
                 adapterHasUsers, ticks, opened, returned, cron, retry>>

\* each tenant has one broker; the deals table is any of ApiTables
InitApi ==
  /\ brokers = <<BrokerRow("A", User("u1", "e1", FALSE, "active")),
                 BrokerRow("B", User("u2", "e2", FALSE, "active"))>>
  /\ deals \in ApiTables
  /\ activityLogs = <<>>
  /\ syncLogs = <<>>
  /\ proc = [p \in Procs |-> IdleProc]
  /\ ticks = 0
  /\ opened = 0
  /\ returned = 0
  /\ cron = DefaultCron
  /\ orgs = [o \in Orgs |-> [crm_type |-> "none", crm_config |-> {}]]
  /\ ext = [o \in Orgs |-> FreeExt({}, {}, {}, {})]
  /\ adapterHasUsers = TRUE
  /\ retry = NoRetry
  /\ listing = NoListing
  /\ now = MaxRows + 1

NextApi ==
  \/ ListFirstPage
  \/ ListNextPage
  \/ DealPut

SpecApi == InitApi /\ [][NextApi]_vars

\* ------------------------------------------------------------ properties
\* the caller is between the insert of its pass's row and the close of it
InPass(p) ==
  proc[p].pc \in {"vetorFetch", "vetorHung", "vetorUsers", "vetorUserWrite", "vetorDeals",
                  "vetorDealWrite", "vetorNotesFetch", "vetorNotes",
                  "vetorClose", "madaFetch", "madaConvs", "madaConvUpdate",
                  "madaConvInsert", "madaClose", "manFetch", "manUsers",
                  "manUserWrite", "manDeals", "manDealWrite", "manDealNote",
                  "manClose"}

\* the caller's last pass has returned and its locals are still in place
PassReturned(p) ==
  /\ proc[p].logId # 0
  /\ proc[p].pc \in {"vetorLoop", "madaLoop", "manMada", "manReply",
                     "manDone"}

Closed(i) == syncLogs[i].status \in {"success", "error"}

\* C1: every pass opens exactly one sync_logs row, and the row has status
\* 'success' or 'error' once the pass has returned: a row at 'running'
\* belongs to a pass that is still in flight.
C1_LogClosedOnReturn ==
  /\ Len(syncLogs) = opened
  /\ Cardinality({i \in DOMAIN syncLogs : Closed(i)}) = returned
  /\ \A i \in DOMAIN syncLogs :
       \/ Closed(i)
       \/ /\ syncLogs[i].status = "running"
          /\ \E p \in Procs : InPass(p) /\ proc[p].logId = i
  /\ \A p \in Procs :
       /\ InPass(p) => syncLogs[proc[p].logId].status = "running"
       /\ PassReturned(p) => Closed(proc[p].logId)
  /\ \A p, q \in Procs : InPass(p) /\ InPass(q) /\ p # q
                           => proc[p].logId # proc[q].logId

\* a scheduled pass has closed with 'error', a manual pass with 'success'
C1_Witness ==
  /\ returned >= 2
  /\ \E i, j \in DOMAIN syncLogs :
       /\ syncLogs[i].status = "error"
       /\ syncLogs[j].status = "success"
  /\ proc["manual"].pc = "manDone"
  /\ proc["manual"].resp.logIds # <<>>

\* the rows of brokers and deals a step changed belong to organization o,
\* and no row changed its organization
WritesOwn(o) ==
  /\ \A i \in DOMAIN brokers :
       /\ brokers'[i].organization_id = brokers[i].organization_id
       /\ brokers'[i] # brokers[i] => brokers[i].organization_id = o
  /\ \A i \in DOMAIN deals :
       /\ deals'[i].organization_id = deals[i].organization_id
       /\ deals'[i] # deals[i] => deals[i].organization_id = o
  /\ \A i \in DOMAIN activityLogs' \ DOMAIN activityLogs :
       deals[activityLogs'[i].deal_id].organization_id = o

\* the rows a step selected to match an external record belong to o
MatchesOwn(p, o) ==
  /\ proc'[p].pc \in {"vetorUserWrite", "manUserWrite"}
       => \/ proc'[p].existing = 0
          \/ brokers[proc'[p].existing].organization_id = o
  /\ proc'[p].pc \in {"vetorDealWrite", "manDealWrite"}
       => /\ \/ proc'[p].existing = 0
             \/ deals[proc'[p].existing].organization_id = o
          /\ \/ proc'[p].broker = 0
             \/ brokers[proc'[p].broker].organization_id = o
  /\ proc'[p].pc = "madaConvUpdate"
       => deals[proc'[p].existing].organization_id = o

VetorPass(p) == syncLogs[proc[p].logId].source = "vetor_imobi"

\* C5: a Vetor pass in which exactly one deal of the batch failed closes
\* with a processed count of the users plus all deals but one, and with one
\* error recorded on its row.
C5_OneFailureIsolated ==
  \A p \in Procs :
    (/\ PassReturned(p)
     /\ VetorPass(p)
     /\ syncLogs[proc[p].logId].status = "success"
     /\ proc[p].caught = 1)
      => /\ syncLogs[proc[p].logId].records_processed
              = proc[p].fetchedUsers + proc[p].fetchedDeals - 1
         /\ syncLogs[proc[p].logId].error_message # Null

\* C6: a pass that closed with status 'success' after per-record errors
\* reports them in the error_message of its row.
C6_ErrorsReportedOnSuccess ==
  \A p \in Procs :
    (/\ PassReturned(p)
     /\ syncLogs[proc[p].logId].status = "success"
     /\ proc[p].caught + proc[p].errors > 0)
      => syncLogs[proc[p].logId].error_message # Null

\* the organizations of a tick that run a pass: those with credentials
Runs(p, o) ==
  IF p = "vetorTick"
  THEN orgs[o].crm_type = "vetor" /\ HasKey(o, "vetor_api_key")
  ELSE orgs[o].crm_type = "mada" /\ MadaCredentials(o)

TickSource(p) == IF p = "vetorTick" THEN "vetor_imobi" ELSE "mada"

\* between two organizations of a tick, every organization that runs a
\* pass is still in the queue or has a closed row
TickProcessesAll(p) ==
  proc[p].pc \in {"vetorLoop", "madaLoop"}
    => \A o \in Orgs :
         Runs(p, o)
           => \/ o \in Range(proc[p].queue)
              \/ \E i \in DOMAIN syncLogs :
                   /\ syncLogs[i].organization_id = o
                   /\ syncLogs[i].source = TickSource(p)
                   /\ Closed(i)

Credentials(o, source) ==
  IF source = "vetor_imobi" THEN HasKey(o, "vetor_api_key")
  ELSE MadaCredentials(o)

\* C8: an organization without the credentials of a source gets no
\* sync_logs row for that source and no Broker or Deal row, and a tick that
\* skips it still runs the pass of every other organization.
C8_SkipWithoutCredentials ==
  /\ \A i \in DOMAIN syncLogs :
       Credentials(syncLogs[i].organization_id, syncLogs[i].source)
  /\ \A i \in DOMAIN brokers :
       HasKey(brokers[i].organization_id, "vetor_api_key")
  /\ \A i \in DOMAIN deals :
       HasKey(deals[i].organization_id, "vetor_api_key")
  /\ \A p \in {"vetorTick", "madaTick"} : TickProcessesAll(p)

\* a Vetor tick has skipped A (no API key) and run the pass of B
C8_Witness ==
  /\ orgs["A"].crm_type = "vetor"
  /\ ~HasKey("A", "vetor_api_key")
  /\ orgs["B"].crm_type = "vetor"
  /\ HasKey("B", "vetor_api_key")
  /\ proc["vetorTick"].pc = "vetorLoop"
  /\ proc["vetorTick"].queue = <<>>
  /\ proc["vetorTick"].org = "B"
  /\ Closed(proc["vetorTick"].logId)
  /\ \A i \in DOMAIN syncLogs : syncLogs[i].organization_id = "B"

\* the sources a manual request names
Named(source) ==
  IF source = "all" THEN {"vetor_imobi", "mada"} ELSE {source}

\* C9: a manual trigger naming a source the organization has no credentials
\* for is answered 4xx and opens no sync_logs row.
C9_NoCredentialsRejected ==
  (/\ proc["manual"].pc = "manDone"
   /\ proc["manual"].source \in Sources
   /\ \E src \in Named(proc["manual"].source) :
        ~Credentials(proc["manual"].org, src))
    => /\ proc["manual"].resp.code >= 400
       /\ proc["manual"].resp.logIds = <<>>

\* C10: a manual trigger one of whose passes closed with status 'error' is
\* not answered 2xx.
C10_FailedPassNot2xx ==
  (/\ proc["manual"].pc = "manDone"
   /\ \E k \in 1..Len(proc["manual"].resp.logIds) :
        syncLogs[proc["manual"].resp.logIds[k]].status = "error")
    => proc["manual"].resp.code >= 300

\* C11: a sync_logs row is inserted with status 'running' and a processed
\* count of 0 and changes once, from 'running' to 'success' or 'error'; a
\* closed row never changes again, and no two passes in flight hold the
\* same row.
C11_LogWrittenTwice ==
  [][/\ \A i \in DOMAIN syncLogs :
          /\ Closed(i) => syncLogs'[i] = syncLogs[i]
          /\ syncLogs'[i] # syncLogs[i]
               => /\ syncLogs[i].status = "running"
                  /\ syncLogs'[i].status \in {"success", "error"}
     /\ \A i \in DOMAIN syncLogs' \ DOMAIN syncLogs :
          /\ syncLogs'[i].status = "running"
          /\ syncLogs'[i].records_processed = 0
     /\ \A p, q \in Procs :
          (p # q /\ InPass(p) /\ InPass(q))
            => proc[p].logId # proc[q].logId]_vars

\* the scheduled pass of A has closed its row while a manual pass of A,
\* which overlapped it, is still running
C11_Witness ==
  /\ proc["vetorTick"].logId # 0
  /\ proc["vetorTick"].pc = "vetorLoop"
  /\ Closed(proc["vetorTick"].logId)
  /\ InPass("manual")
  /\ proc["manual"].logId < proc["vetorTick"].logId
  /\ syncLogs[proc["manual"].logId].status = "running"

\* the caller has selected the local row for the external deal it is at
AtDealWrite(p) == proc[p].pc \in {"vetorDealWrite", "manDealWrite"}

Written(p) ==
  IF proc[p].existing # 0 THEN deals'[proc[p].existing]
  ELSE deals'[Len(deals')]

\* the step is a deal write of caller p that went through
WritesDeal(p) ==
  /\ AtDealWrite(p)
  /\ proc'[p] # proc[p]
  /\ deals' # deals

\* a word of a stage, in lower case
toLowerCase(w) == IF w = "Perdido" THEN "perdido" ELSE w

Contains(stage, term) ==
  \E i \in 1..Len(stage) : toLowerCase(stage[i]) = term

\* C13: the status of a deal is found from its stage without regard to
\* letter case and in priority order: a 'lost' term gives Lost, else a
\* 'closed' term Closed, else a 'proposal' or 'negotiation' term Proposal,
\* else a 'visit' term Negotiation, else a 'qualification' term Qualified,
\* else New.
C13_StagePriorityAnyCase ==
  [][\A p \in Procs :
       WritesDeal(p)
         => LET st == proc[p].deal.stage
            IN Written(p).status =
                 IF Contains(st, "perdido") THEN "Lost"
                 ELSE IF Contains(st, "fechado") THEN "Closed"
                 ELSE IF Contains(st, "proposta") \/ Contains(st, "negociacao")
                      THEN "Proposal"
                 ELSE IF Contains(st, "visita") THEN "Negotiation"
                 ELSE IF Contains(st, "qualificacao") THEN "Qualified"
                 ELSE "New"]_vars

Statuses ==
  {"New", "Qualified", "Negotiation", "Proposal", "Closed", "Lost"}

StageTerms ==
  {"perdido", "fechado", "proposta", "negociacao", "visita", "qualificacao"}

AtUserWrite(p) ==
  /\ proc[p].pc \in {"vetorUserWrite", "manUserWrite"}
  /\ \/ proc[p].existing = 0
     \/ proc[p].pc = "vetorUserWrite"
     \/ brokers[proc[p].existing].organization_id = proc[p].org

\* C15: the Broker row inserted or updated for an external user carries
\* is_active = (not disabled and status = 'active'), for every combination
\* of disabled and status, in the scheduled job and in the manual route.
C15_IsActiveBothAgree ==
  [][\A p \in Procs :
       (AtUserWrite(p) /\ proc'[p] # proc[p])
         => LET u == proc[p].user
                row == IF proc[p].existing # 0
                       THEN brokers'[proc[p].existing]
                       ELSE brokers'[Len(brokers')]
            IN row.is_active = (~u.disabled /\ u.status = "active")]_vars

\* a broker stored as inactive by an earlier pass is being updated in place
\* from a user that is enabled and active
C15_Witness ==
  /\ Len(brokers) = 1
  /\ ~brokers[1].is_active
  /\ proc["manual"].pc = "manUserWrite"
  /\ proc["manual"].existing = 1
  /\ ~proc["manual"].user.disabled
  /\ proc["manual"].user.status = "active"

C17_AbsentFieldsKept ==
  [][\A p \in Procs :
       /\ (AtDealWrite(p) /\ proc'[p] # proc[p] /\ proc[p].existing # 0)
            => LET d == proc[p].deal
                   old == deals[proc[p].existing]
                   new == deals'[proc[p].existing]
               IN /\ d.title = Null => new.property_title = old.property_title
                  /\ d.last_activity_at = Null
                       => new.last_activity = old.last_activity
                  /\ d.agent_email = Null => new.broker_id = old.broker_id
                  /\ (d.id = Null /\ proc[p].pc = "vetorDealWrite")
                       => new.external_id = old.external_id
                  /\ d.stage = <<>> => new.status = old.status
       /\ (AtUserWrite(p) /\ proc'[p] # proc[p] /\ proc[p].existing # 0)
            => LET u == proc[p].user
               IN u.email = Null
                    => brokers'[proc[p].existing].email
                         = brokers[proc[p].existing].email]_vars

\* the users and deals of the pass are done in the order users, deals, notes
InOrder(p) ==
  /\ proc[p].pc \in {"vetorDeals", "vetorDealWrite"} => proc[p].users = 0
  /\ proc[p].pc \in {"vetorNotesFetch", "vetorNotes", "vetorClose"}
       => proc[p].users = 0 /\ proc[p].deals = 0

\* the deal the loop is at names as agent a user of this fetch: the broker
\* selected for it carries that e-mail
LinkedToBroker(p) ==
  (/\ proc[p].pc = "vetorDealWrite"
   /\ proc[p].deal.agent_email # Null
   /\ \E u \in Range(ext[proc[p].org].users) :
        u.email = proc[p].deal.agent_email)
    => /\ proc[p].broker # 0
       /\ brokers[proc[p].broker].email = proc[p].deal.agent_email

\* the note the loop of syncVetorNotes is at
NoteAt(p) ==
  ext[proc[p].org].notes[Len(ext[proc[p].org].notes) - proc[p].notes + 1]

\* the step inserts the activity log of the note, on a deal with its id
NoteFindsDeal(p) ==
  /\ Len(activityLogs') = Len(activityLogs) + 1
  /\ deals[activityLogs'[Len(activityLogs')].deal_id].external_id
       = NoteAt(p).deal_id

TickCron(p) == IF p = "vetorTick" THEN cron.vetor ELSE cron.mada

\* C21: for a schedule '*/N * * * *', every fetch of a scheduled tick looks
\* back N minutes: the lookback window equals the interval between ticks.
C21_LookbackIsInterval ==
  \A p \in {"vetorTick", "madaTick"} :
    (InPass(p) /\ TickCron(p).form = "everyN")
      => /\ proc[p].lookback # <<>>
         /\ proc[p].lookback[1] * 60 * 1000 = parseCronInterval(TickCron(p))

\* C22: every fetch of a manual pass, of either source, looks back the
\* minutes of the request; when the request leaves minutes out the window
\* is the default of a year, or all history.
C22_ManualLookbackIsMinutes ==
  InPass("manual")
    => \/ proc["manual"].lookback = <<proc["manual"].minutes>>
       \/ /\ proc["manual"].minutes = DefaultMinutes
          /\ proc["manual"].lookback = AllHistory

\* C26: a pass has no timeout and no cancellation: once the fetch of a
\* scheduled Vetor pass never answers, the tick stays where it is, the
\* sync_logs row of the pass stays 'running', and the organizations still
\* in the tick's queue get no row from this tick.
C26_HungPassStaysRunning ==
  /\ [](\A p \in Procs :
          proc[p].hung
            => /\ proc[p].pc = "vetorHung"
               /\ syncLogs[proc[p].logId].status = "running")
  /\ [][\A p \in Procs : proc[p].hung => proc'[p] = proc[p]]_vars

\* the fetch of A's pass never answers while B is still in the queue of
\* the tick, and another caller has run a whole pass since
C26_Witness ==
  /\ proc["vetorTick"].hung
  /\ proc["vetorTick"].org = "A"
  /\ proc["vetorTick"].queue = <<"B">>
  /\ syncLogs[proc["vetorTick"].logId].status = "running"
  /\ Len(syncLogs) > proc["vetorTick"].logId
  /\ \A i \in DOMAIN syncLogs : i # proc["vetorTick"].logId => Closed(i)

\* the rows of a table that belong to organization o
RowsOf(table, o) == {i \in DOMAIN table : table[i].organization_id = o}

\* C23: the first pass for an organization without rows, over U users and D
\* deals with distinct ids and titles, leaves U Broker rows and D Deal rows,
\* each Deal with the status its stage maps to, and closes its sync_logs
\* row with status 'success' and records_processed = U + D.
C23_FreshPassCounts ==
  LET p == "vetorTick"
      U == Len(ext["A"].users)
      D == Len(ext["A"].deals)
  IN (PassReturned(p) /\ proc[p].logId = 1)
       => /\ syncLogs[1].status = "success"
          /\ syncLogs[1].records_processed = U + D
          /\ Cardinality(RowsOf(brokers, "A")) = U
          /\ Len(deals) = D
          /\ \A i \in 1..D :
               /\ i \in DOMAIN deals
               /\ deals[i].status = mapVetorStage(ext["A"].deals[i].stage)

\* the sum of records_processed over the sync_logs rows listed in ids
SumProcessed(ids) ==
  LET sum[k \in 0..Len(ids)] ==
        IF k = 0 THEN 0
        ELSE sum[k - 1] + syncLogs[ids[k]].records_processed
  IN sum[Len(ids)]

\* C24: every row a manual trigger inserts or updates, in sync_logs,
\* brokers, deals and activity_logs, belongs to the organization of the
\* caller, and the recordsProcessed of a 200 answer is the sum of
\* records_processed over the rows of its syncLogIds.
C24_ManualOwnOrganization ==
  /\ []((proc["manual"].pc = "manDone" /\ proc["manual"].resp.code = 200)
         => proc["manual"].resp.recordsProcessed
              = SumProcessed(proc["manual"].resp.logIds))
  /\ [][(proc'["manual"] # proc["manual"] /\ proc["manual"].org # Null)
          => /\ WritesOwn(proc["manual"].org)
             /\ \A i \in DOMAIN syncLogs' :
                  (i \notin DOMAIN syncLogs \/ syncLogs'[i] # syncLogs[i])
                    => syncLogs'[i].organization_id = proc["manual"].org]_vars

\* the caller is inside syncToVetorCore, or at its return
InSyncToVetorCore(p) ==
  proc[p].pc \in {"madaConvs", "madaConvUpdate", "madaConvInsert",
                  "madaClose"}

\* C28: syncToVetorCore returns processed + errors.length =
\* conversations.length and success exactly when there is no error; each
\* conversation counted in processed updated one Deal and inserted one
\* ConversationSummary for it, and every other conversation added one
\* error string.
C28_EveryConversationCounted ==
  /\ [](\A p \in Procs :
          InSyncToVetorCore(p)
            => /\ proc[p].processed + proc[p].errors + proc[p].convs
                    = proc[p].fetchedConvs
               /\ proc[p].pc = "madaClose"
                    => /\ SyncResult(p).processed + SyncResult(p).errors
                            = proc[p].fetchedConvs
                       /\ SyncResult(p).success <=> SyncResult(p).errors = 0)
  /\ [][\A p \in Procs :
          /\ (InSyncToVetorCore(p) /\ proc'[p] # proc[p]
                /\ proc'[p].convs < proc[p].convs)
               => \/ /\ proc[p].pc = "madaConvInsert"
                     /\ proc'[p].processed = proc[p].processed + 1
                     /\ proc'[p].errors = proc[p].errors
                     /\ Len(activityLogs') = Len(activityLogs) + 1
                     /\ activityLogs'[Len(activityLogs')]
                          = SummaryRow(proc[p].conv.deal_id)
                  \/ /\ proc'[p].processed = proc[p].processed
                     /\ proc'[p].errors = proc[p].errors + 1
                     /\ activityLogs' = activityLogs
                     /\ deals' = deals
          /\ (proc[p].pc = "madaConvUpdate"
                /\ proc'[p].pc = "madaConvInsert")
               => /\ deals'[proc[p].conv.deal_id].last_activity
                       = proc[p].conv.updated_at
                  /\ \A i \in DOMAIN deals :
                       i # proc[p].conv.deal_id => deals'[i] = deals[i]]_vars

\* syncToVetorCore is at its return with one conversation processed and
\* one turned into an error string
C28_Witness ==
  \E p \in Procs :
    /\ proc[p].pc = "madaClose"
    /\ proc[p].fetchedConvs = 2
    /\ proc[p].processed = 1
    /\ proc[p].errors = 1

\* two Deal rows that stand for the same external deal: the same external
\* id, or, a row written by the manual trigger having none, the same title
SameExternalDeal(a, b) ==
  \/ a.external_id # Null /\ a.external_id = b.external_id
  \/ /\ a.external_id = Null \/ b.external_id = Null
     /\ a.property_title # Null
     /\ a.property_title = b.property_title

RetryOver == retry.pc \in {"returned", "thrown"}

\* C27: withRetry invokes the operation at most maxRetries times and
\* returns the result of the first invocation that succeeds; an error that
\* is not a connection error is rethrown with no further invocation; a
\* connection error is retried after baseDelay * 2^attempt and rethrown
\* once the maxRetries-th invocation has failed; the call terminates.
C27_WithRetry ==
  /\ [](LET h == retry.history
            n == Len(h)
        IN /\ n <= retry.maxRetries
           /\ \A k \in 1..(n - 1) :
                ~h[k].ok /\ isConnectionError(h[k].error)
           /\ \A k \in 1..Len(retry.delays) :
                retry.delays[k] = retry.baseDelay * 2^(k - 1)
           /\ retry.pc = "returned"
                => h[n].ok /\ retry.result \in Results
           /\ (retry.pc = "thrown" /\ n > 0)
                => /\ h[n] = Outcome(FALSE, retry.lastError)
                   /\ isConnectionError(h[n].error) => n = retry.maxRetries
                   /\ Len(retry.delays) = n - 1
           /\ retry.pc = "sleep" => Len(retry.delays) = n)
  /\ <>RetryOver

\* three invocations failed with connection errors and the last one was
\* rethrown, after waits of baseDelay and 2 * baseDelay
C27_Witness ==
  /\ retry.pc = "thrown"
  /\ retry.maxRetries = 3
  /\ Len(retry.history) = 3
  /\ isConnectionError(retry.lastError)
  /\ retry.delays = <<retry.baseDelay, 2 * retry.baseDelay>>

\* the pages of a listing one after the other
Concat(pages) ==
  LET cat[k \in 0..Len(pages)] ==
        IF k = 0 THEN <<>> ELSE cat[k - 1] \o pages[k]
  IN cat[Len(pages)]

\* the client has asked for every page the total announces
ListingDone ==
  /\ listing.organization_id # Null
  /\ Len(listing.pages) * listing.limit >= listing.totals[1]

\* C25: a listing read page by page with a fixed limit gives the same total
\* on every page, and its pages put together hold every deal of the tenant
\* exactly once, in the order of creation, and no deal of another tenant.
C25_PagesCoverTenant ==
  ListingDone
    => LET all == Concat(listing.pages)
           own == RowsOfDeals(listing.organization_id)
       IN /\ \A k \in 1..Len(listing.totals) :
               listing.totals[k] = Cardinality(own)
          /\ Len(all) = Cardinality(own)
          /\ Range(all) = own
          /\ \/ \A i, j \in 1..Len(all) :
                  i < j => deals[all[i]].created_at < deals[all[j]].created_at
             \/ \A i, j \in 1..Len(all) :
                  i < j => deals[all[i]].created_at > deals[all[j]].created_at

\* C30: a Deal with a broker_id refers to a Broker of the Deal's own
\* organization.
C30_BrokerOfSameOrganization ==
  \A i \in DOMAIN deals :
    deals[i].broker_id # 0
      => /\ deals[i].broker_id \in DOMAIN brokers
         /\ brokers[deals[i].broker_id].organization_id
              = deals[i].organization_id
====
